---- MODULE Spec2Model ----
(***************************************************************************)
(* Model of serial_stream_sim.py: a frame reassembler that reads a byte    *)
(* stream in chunks, searches for the SYNC marker 0xBE 0xEF, extracts      *)
(* length-prefixed candidate frames and validates their CRC-16-CCITT.      *)
(*                                                                         *)
(* Bytes are integers 0..255, byte strings are sequences (1-indexed, so    *)
(* Python's buffer[k] is buffer[k+1] here).                                *)
(***************************************************************************)
EXTENDS Integers, Sequences, FiniteSets, TLC

(***************************************************************************)
(* Bounds of the model.                                                    *)
(***************************************************************************)
\* largest number of noise bytes written around the frames of one stream
MaxNoise == 2
\* largest number of two-byte payload items written to one stream
MaxItems == 1

\* longest byte string crc16_ccitt is called on, the check string apart
MaxData == 3

(***************************************************************************)
(* Values the generated streams are drawn from.                            *)
(***************************************************************************)
\* noise bytes: the two marker bytes and a byte that is neither
NoiseBytes == {0, 190, 239}
\* payload items of a stream that holds one frame
Items == {0, 1, 256, 48879, 65535}
\* payload items of a stream that holds two frames: the marker and another
PairItems == {1, 48879}
\* XOR masks that change a payload byte: each single bit, and all of them
Masks == {1, 2, 4, 8, 16, 32, 64, 128, 255}

(***************************************************************************)
(* Frame layout and checksum                                               *)
(***************************************************************************)
SYNC == <<190, 239>>

\* bitwise exclusive or of two naturals
RECURSIVE Xor(_, _)
Xor(a, b) ==
    IF a = 0 THEN b
    ELSE IF b = 0 THEN a
    ELSE ((a + b) % 2) + 2 * Xor(a \div 2, b \div 2)

\* generator polynomial, with the implicit leading bit (bit 16)
Poly == 69665
initCrc == 65535
xorOut == 0

\* one bit of the non-reflected CRC: shift left, reduce by Poly on carry out
crc_bit(crc) ==
    IF crc >= 32768 THEN Xor(crc * 2, Poly) ELSE crc * 2

\* (the register is tested at every step so that it is evaluated step by
\* step: it is a 16-bit value throughout)
RECURSIVE crc_bits(_, _)
crc_bits(crc, n) ==
    IF n = 0 \/ crc > 65535 THEN crc ELSE crc_bits(crc_bit(crc), n - 1)

\* feed one byte: xor it into the high byte of the register, then 8 bit steps
crc_byte(crc, b) == crc_bits(Xor(crc, b * 256), 8)

RECURSIVE crc_update(_, _)
crc_update(crc, data) ==
    IF data = <<>> \/ crc > 65535 THEN crc
    ELSE crc_update(crc_byte(crc, Head(data)), Tail(data))

\* (variant: the register starts at zero, as in CRC-16/XMODEM)
crc_func_xmodem(data) == Xor(crc_update(0, data), xorOut)

\* _crc_func = crcmod.mkCrcFun(0x11021, initCrc=0xFFFF, rev=False, xorOut=0)
crc_func(data) == Xor(crc_update(initCrc, data), xorOut)

crc16_ccitt(data) == crc_func(data)

\* x.to_bytes(2, 'big')
to_bytes(x) == <<(x \div 256) % 256, x % 256>>

\* (variant: the two bytes read least significant first)
Int16ul(hi, lo) == lo * 256 + hi

\* Int16ub: two bytes, unsigned big-endian
Int16ub(hi, lo) == hi * 256 + lo

\* b''.join(item.to_bytes(2, 'big') for item in payload_items)
RECURSIVE join_items(_)
join_items(payload_items) ==
    IF payload_items = <<>> THEN <<>>
    ELSE to_bytes(Head(payload_items)) \o join_items(Tail(payload_items))

\* make_frame, with the randomly drawn items as its argument
make_frame(payload_items) ==
    LET payload == join_items(payload_items)
        length  == to_bytes(Len(payload_items))
        crc_val == crc16_ccitt(SYNC \o length \o payload)
        crc     == to_bytes(crc_val)
    IN  SYNC \o length \o payload \o crc

\* Array(n, Int16ub) parsed from data starting at (0-based) offset off
RECURSIVE parse_array(_, _, _)
parse_array(data, off, n) ==
    IF n = 0 THEN <<>>
    ELSE <<Int16ub(data[off + 1], data[off + 2])>>
         \o parse_array(data, off + 2, n - 1)

\* Frame.parse: Const(SYNC), Int16ub length, Array(length, Int16ub), Int16ub
\* crc.  Fails (ok = FALSE) when the constant does not match or the data ends
\* before a field is complete; trailing bytes are ignored.
Frame_parse(data) ==
    IF Len(data) < 2 \/ SubSeq(data, 1, 2) # SYNC
      THEN [ok |-> FALSE, length |-> 0, payload |-> <<>>, crc |-> 0]
    ELSE IF Len(data) < 4
      THEN [ok |-> FALSE, length |-> 0, payload |-> <<>>, crc |-> 0]
    ELSE LET length == Int16ub(data[3], data[4]) IN
      IF Len(data) < 4 + 2 * length + 2
        THEN [ok |-> FALSE, length |-> length, payload |-> <<>>, crc |-> 0]
      ELSE [ok      |-> TRUE,
            length  |-> length,
            payload |-> parse_array(data, 4, length),
            crc     |-> Int16ub(data[4 + 2 * length + 1],
                                data[4 + 2 * length + 2])]

(***************************************************************************)
(* Sync search                                                             *)
(***************************************************************************)
\* (variant: the search matches the first marker byte alone)
RECURSIVE find_sync_one_byte(_, _)
find_sync_one_byte(buf, i) ==
    IF i >= Len(buf) - 1 THEN -1
    ELSE IF buf[i + 1] = 190 THEN i
    ELSE find_sync_one_byte(buf, i + 1)

\* (variant: the search returns the last place the marker occurs)
RECURSIVE find_sync_last(_, _)
find_sync_last(buf, i) ==
    IF i >= Len(buf) - 1 THEN -1
    ELSE LET later == find_sync_last(buf, i + 1)
         IN  IF later # -1 THEN later
             ELSE IF buf[i + 1] = 190 /\ buf[i + 2] = 239 THEN i
             ELSE -1

\* find_sync: first i (0-based) with buf[i] = 0xBE and buf[i+1] = 0xEF, or -1
RECURSIVE find_sync_from(_, _)
find_sync_from(buf, i) ==
    IF i >= Len(buf) - 1 THEN -1
    ELSE IF buf[i + 1] = 190 /\ buf[i + 2] = 239 THEN i
    ELSE find_sync_from(buf, i + 1)

find_sync(buf) == find_sync_from(buf, 0)

(***************************************************************************)
(* The generated streams.  A layout is the sequence of segments written to *)
(* the stream: noise runs, valid frames, frames with one corrupted payload *)
(* byte, and truncated frames.                                             *)
(***************************************************************************)
\* the sequences over S of length 0..n
RECURSIVE SeqsUpTo(_, _)
SeqsUpTo(S, n) ==
    IF n = 0 THEN {<<>>}
    ELSE LET shorter == SeqsUpTo(S, n - 1)
         IN  shorter \cup {Append(s, x) : s \in shorter, x \in S}

\* make_noise, with the randomly drawn bytes as the result set
make_noise == SeqsUpTo(NoiseBytes, MaxNoise)

\* a stream of noise alone: the noise behind one frame and ahead of the next
NoiseOnly == SeqsUpTo(NoiseBytes, 2 * MaxNoise)

\* the noise runs written ahead of the first and of the second frame
NoisePairs ==
    {n \in make_noise \X make_noise : Len(n[1]) + Len(n[2]) <= MaxNoise}

\* payload_items of a frame that is alone in its stream
Payloads == SeqsUpTo(Items, MaxItems)

\* payload_items of the first and of the second frame of a stream
PayloadPairs ==
    {p \in SeqsUpTo(PairItems, MaxItems) \X SeqsUpTo(PairItems, MaxItems) :
        Len(p[1]) + Len(p[2]) <= MaxItems}

Noise(bytes) == [kind |-> "noise", payload |-> <<>>, bytes |-> bytes]

Valid(p) == [kind |-> "frame", payload |-> p, bytes |-> make_frame(p)]

\* a valid frame whose payload byte k (1-based, within the payload) is xored
\* with mask m after encoding
Corrupt(p, k, m) ==
    LET f == make_frame(p)
    IN  [kind |-> "corrupt", payload |-> p,
         bytes |-> SubSeq(f, 1, 3 + k) \o <<Xor(f[4 + k], m)>>
                   \o SubSeq(f, 5 + k, Len(f))]

\* the first n bytes of a valid frame
Prefix(p, n) ==
    [kind |-> "prefix", payload |-> p, bytes |-> SubSeq(make_frame(p), 1, n)]

\* a marker followed by a small length field, appearing in noise
FalseSync(n) == Noise(SYNC \o to_bytes(n))

\* the frame of p with one payload byte changed, in every way
Corruptions(p) == {Corrupt(p, k, m) : k \in 1..(2 * Len(p)), m \in Masks}

\* every proper prefix of the frame of p
Truncations(p) == {Prefix(p, n) : n \in 0..(Len(make_frame(p)) - 1)}

Layouts ==
    \* noise, frame, noise, frame
    {<<Noise(n[1]), Valid(p[1]), Noise(n[2]), Valid(p[2])>> :
        n \in NoisePairs, p \in PayloadPairs}
    \* noise only
    \cup {<<Noise(n)>> : n \in NoiseOnly}
    \* a frame alone
    \cup {<<Valid(a)>> : a \in Payloads}
    \* a frame followed by a truncated frame
    \cup UNION {{<<Valid(p[1]), t>> : t \in Truncations(p[2])} :
                  p \in PayloadPairs}
    \* a corrupted frame, alone and followed by a valid frame
    \cup UNION {{<<c>> : c \in Corruptions(a)} : a \in Payloads}
    \cup UNION {{<<c, Valid(p[2])>> : c \in Corruptions(p[1])} :
                  p \in PayloadPairs}
    \* a false marker in the noise ahead of two frames
    \cup {<<FalseSync(n), Valid(p[1]), Valid(p[2])>> :
            n \in 0..MaxItems, p \in PayloadPairs}

RECURSIVE Concat(_)
Concat(l) == IF l = <<>> THEN <<>> ELSE Head(l).bytes \o Concat(Tail(l))

(***************************************************************************)
(* read_serial_stream                                                      *)
(***************************************************************************)
VARIABLES
    layout,      \* the segments the stream was built from (history only)
    stream,      \* the content of the binary stream
    pos,         \* the stream's read position
    chunk_size,  \* argument of read_serial_stream
    buffer,      \* the deque of received, not yet consumed bytes
    events,      \* the messages logged so far
    removed,     \* every byte popped from the buffer, in order (history only)
    pc           \* position in the loops of read_serial_stream

vars == <<layout, stream, pos, chunk_size, buffer, events, removed, pc>>

\* stream offset of the first byte of the buffer
Base == pos - Len(buffer)

\* stream.read(chunk_size)
stream_read == SubSeq(stream, pos + 1,
                      IF pos + chunk_size < Len(stream)
                        THEN pos + chunk_size ELSE Len(stream))

ChunkSizes(s) == {1, 8} \cup ({Len(s)} \ {0})

Init ==
    /\ layout \in Layouts
    /\ stream = Concat(layout)
    /\ chunk_size \in ChunkSizes(stream)
    /\ pos = 0
    /\ buffer = <<>>
    /\ events = <<>>
    /\ removed = <<>>
    /\ pc = "read"

\* buffer.popleft() n times: the popped bytes and what is left
popleft(buf, n) == [popped |-> SubSeq(buf, 1, n),
                    rest   |-> SubSeq(buf, n + 1, Len(buf))]

\* payload_len = (buffer[2] << 8 | buffer[3])
payload_len(buf) == Int16ub(buf[3], buf[4])

\* (variant: the item count taken as the payload's byte count)
total_frame_len_bytes(buf) == 2 + 2 + Int16ub(buf[3], buf[4]) + 2

\* total_frame_len = 2 + 2 + payload_len * 2 + 2
total_frame_len(buf) == 2 + 2 + payload_len(buf) * 2 + 2

\* (variant: the CRC recomputed over the whole frame, checksum included)
Decode_whole_frame(frame, start) ==
    LET parsed == Frame_parse(frame)
        computed_crc == crc16_ccitt(frame)
    IN  IF ~parsed.ok
          THEN [kind |-> "parse_error", payload |-> <<>>,
                computed |-> 0, received |-> 0, raw |-> frame, start |-> start]
        ELSE IF parsed.crc = computed_crc
          THEN [kind |-> "valid", payload |-> parsed.payload,
                computed |-> computed_crc, received |-> parsed.crc,
                raw |-> frame, start |-> start]
        ELSE [kind |-> "crc_mismatch", payload |-> parsed.payload,
              computed |-> computed_crc, received |-> parsed.crc,
              raw |-> frame, start |-> start]

\* (variant: the comparison of the two checksums inverted)
Decode_inverted(frame, start) ==
    LET parsed == Frame_parse(frame)
        computed_crc == crc16_ccitt(SubSeq(frame, 1, Len(frame) - 2))
    IN  IF ~parsed.ok
          THEN [kind |-> "parse_error", payload |-> <<>>,
                computed |-> 0, received |-> 0, raw |-> frame, start |-> start]
        ELSE IF parsed.crc # computed_crc
          THEN [kind |-> "valid", payload |-> parsed.payload,
                computed |-> computed_crc, received |-> parsed.crc,
                raw |-> frame, start |-> start]
        ELSE [kind |-> "crc_mismatch", payload |-> parsed.payload,
              computed |-> computed_crc, received |-> parsed.crc,
              raw |-> frame, start |-> start]

\* the try block: parse the frame, recompute the CRC, log one message
Decode(frame, start) ==
    LET parsed == Frame_parse(frame)
        computed_crc == crc16_ccitt(SubSeq(frame, 1, Len(frame) - 2))
    IN  IF ~parsed.ok
          THEN [kind |-> "parse_error", payload |-> <<>>,
                computed |-> 0, received |-> 0, raw |-> frame, start |-> start]
        ELSE IF parsed.crc = computed_crc
          THEN [kind |-> "valid", payload |-> parsed.payload,
                computed |-> computed_crc, received |-> parsed.crc,
                raw |-> frame, start |-> start]
        ELSE [kind |-> "crc_mismatch", payload |-> parsed.payload,
              computed |-> computed_crc, received |-> parsed.crc,
              raw |-> frame, start |-> start]

\* (variant: the chunk is put in front of the buffer)
ReadChunk_extendleft ==
    /\ pc = "read"
    /\ stream_read # <<>>
    /\ buffer' = stream_read \o buffer
    /\ pos' = pos + Len(stream_read)
    /\ pc' = "sync"
    /\ UNCHANGED <<layout, stream, chunk_size, events, removed>>

\* chunk = stream.read(chunk_size); a non-empty chunk is appended
ReadChunk ==
    /\ pc = "read"
    /\ stream_read # <<>>
    /\ buffer' = buffer \o stream_read
    /\ pos' = pos + Len(stream_read)
    /\ pc' = "sync"
    /\ UNCHANGED <<layout, stream, chunk_size, events, removed>>

\* (variant: after an empty read the loop searches the buffer again)
ReadEnd_retry ==
    /\ pc = "read"
    /\ stream_read = <<>>
    /\ pc' = "sync"
    /\ UNCHANGED <<layout, stream, pos, chunk_size, buffer, events, removed>>

\* if not chunk: break
ReadEnd ==
    /\ pc = "read"
    /\ stream_read = <<>>
    /\ pc' = "done"
    /\ UNCHANGED <<layout, stream, pos, chunk_size, buffer, events, removed>>

\* (variant: the buffer is emptied when it holds no marker)
NoSync_clear ==
    /\ pc = "sync"
    /\ find_sync(buffer) = -1
    /\ buffer' = <<>>
    /\ removed' = removed \o buffer
    /\ pc' = "read"
    /\ UNCHANGED <<layout, stream, pos, chunk_size, events>>

\* idx = find_sync(buffer); if idx == -1: break
NoSync ==
    /\ pc = "sync"
    /\ find_sync(buffer) = -1
    /\ pc' = "read"
    /\ UNCHANGED <<layout, stream, pos, chunk_size, buffer, events, removed>>

\* (variant: one byte too many is dropped ahead of the marker)
Discard_one_more ==
    /\ pc = "sync"
    /\ find_sync(buffer) # -1
    /\ LET idx == find_sync(buffer)
           p   == popleft(buffer, idx + 1)
       IN  /\ buffer' = p.rest
           /\ removed' = removed \o p.popped
    /\ pc' = "length"
    /\ UNCHANGED <<layout, stream, pos, chunk_size, events>>

\* for _ in range(idx): buffer.popleft()
Discard ==
    /\ pc = "sync"
    /\ find_sync(buffer) # -1
    /\ LET idx == find_sync(buffer)
           p   == popleft(buffer, idx)
       IN  /\ buffer' = p.rest
           /\ removed' = removed \o p.popped
    /\ pc' = "length"
    /\ UNCHANGED <<layout, stream, pos, chunk_size, events>>

\* if len(buffer) < 4: break
ShortHeader ==
    /\ pc = "length"
    /\ Len(buffer) < 4
    /\ pc' = "read"
    /\ UNCHANGED <<layout, stream, pos, chunk_size, buffer, events, removed>>

\* (variant: a candidate that is not complete yet is dropped)
Incomplete_drop ==
    /\ pc = "length"
    /\ Len(buffer) >= 4
    /\ Len(buffer) < total_frame_len(buffer)
    /\ buffer' = <<>>
    /\ removed' = removed \o buffer
    /\ pc' = "read"
    /\ UNCHANGED <<layout, stream, pos, chunk_size, events>>

\* if len(buffer) < total_frame_len: break
Incomplete ==
    /\ pc = "length"
    /\ Len(buffer) >= 4
    /\ Len(buffer) < total_frame_len(buffer)
    /\ pc' = "read"
    /\ UNCHANGED <<layout, stream, pos, chunk_size, buffer, events, removed>>

\* (variant: the inner loop ends after one extracted candidate)
Extract_then_read ==
    /\ pc = "length"
    /\ Len(buffer) >= 4
    /\ Len(buffer) >= total_frame_len(buffer)
    /\ LET p == popleft(buffer, total_frame_len(buffer))
           frame == p.popped
       IN  /\ buffer' = p.rest
           /\ removed' = removed \o frame
           /\ events' = Append(events, Decode(frame, Base))
    /\ pc' = "read"
    /\ UNCHANGED <<layout, stream, pos, chunk_size>>

\* (variant: only the marker of the candidate is consumed)
Extract_marker_only ==
    /\ pc = "length"
    /\ Len(buffer) >= 4
    /\ Len(buffer) >= total_frame_len(buffer)
    /\ LET frame == SubSeq(buffer, 1, total_frame_len(buffer))
           p == popleft(buffer, 2)
       IN  /\ buffer' = p.rest
           /\ removed' = removed \o p.popped
           /\ events' = Append(events, Decode(frame, Base))
    /\ pc' = "sync"
    /\ UNCHANGED <<layout, stream, pos, chunk_size>>

\* (variant: a candidate that fails validation gives up one byte only)
Extract_next_byte ==
    /\ pc = "length"
    /\ Len(buffer) >= 4
    /\ Len(buffer) >= total_frame_len(buffer)
    /\ LET frame == SubSeq(buffer, 1, total_frame_len(buffer))
           event == Decode(frame, Base)
           p == popleft(buffer, IF event.kind = "valid" THEN Len(frame) ELSE 1)
       IN  /\ buffer' = p.rest
           /\ removed' = removed \o p.popped
           /\ events' = Append(events, event)
    /\ pc' = "sync"
    /\ UNCHANGED <<layout, stream, pos, chunk_size>>

\* (variant: a CRC mismatch ends the whole loop)
Extract_mismatch_fatal ==
    /\ pc = "length"
    /\ Len(buffer) >= 4
    /\ Len(buffer) >= total_frame_len(buffer)
    /\ LET p == popleft(buffer, total_frame_len(buffer))
           frame == p.popped
           event == Decode(frame, Base)
       IN  /\ buffer' = p.rest
           /\ removed' = removed \o frame
           /\ events' = Append(events, event)
           /\ pc' = IF event.kind = "valid" THEN "sync" ELSE "done"
    /\ UNCHANGED <<layout, stream, pos, chunk_size>>

\* frame = bytes(buffer.popleft() for _ in range(total_frame_len)), then the
\* try block; the inner loop continues with the next sync search
Extract ==
    /\ pc = "length"
    /\ Len(buffer) >= 4
    /\ Len(buffer) >= total_frame_len(buffer)
    /\ LET p == popleft(buffer, total_frame_len(buffer))
           frame == p.popped
       IN  /\ buffer' = p.rest
           /\ removed' = removed \o frame
           /\ events' = Append(events, Decode(frame, Base))
    /\ pc' = "sync"
    /\ UNCHANGED <<layout, stream, pos, chunk_size>>

Next ==
    \/ ReadChunk
    \/ ReadEnd
    \/ NoSync
    \/ Discard
    \/ ShortHeader
    \/ Incomplete
    \/ Extract

Spec == Init /\ [][Next]_vars

TypeOK ==
    /\ pos \in 0..Len(stream)
    /\ pc \in {"read", "sync", "length", "done"}
    /\ \A i \in 1..Len(buffer) : buffer[i] \in 0..255

(***************************************************************************)
(* The inner loop run to its break on a whole buffer: what one call of     *)
(* read_serial_stream logs when the first read returns the whole stream.   *)
(***************************************************************************)
RECURSIVE inner_loop(_, _, _)
inner_loop(buf, base, logged) ==
    LET idx == find_sync(buf)
    IN  IF idx = -1 THEN logged
        ELSE LET synced == popleft(buf, idx).rest
             IN  IF Len(synced) < 4 THEN logged
                 ELSE IF Len(synced) < total_frame_len(synced) THEN logged
                 ELSE LET p == popleft(synced, total_frame_len(synced))
                      IN  inner_loop(p.rest,
                                     base + idx + Len(p.popped),
                                     Append(logged,
                                            Decode(p.popped, base + idx)))

(***************************************************************************)
(* Vocabulary of the properties                                            *)
(***************************************************************************)
\* the payloads of the Valid Frame messages of a log, in order
RECURSIVE ValidPayloads(_)
ValidPayloads(log) ==
    IF log = <<>> THEN <<>>
    ELSE IF Head(log).kind = "valid"
      THEN <<Head(log).payload>> \o ValidPayloads(Tail(log))
    ELSE ValidPayloads(Tail(log))

\* the byte string s holds no two-byte marker
NoMarker(s) == \A i \in 1..(Len(s) - 1) : ~(s[i] = 190 /\ s[i + 1] = 239)

Kinds(l) == [i \in 1..Len(l) |-> l[i].kind]

\* C1: when the stream is exhausted, the Valid Frame payloads logged with
\* chunk_size 1, with chunk_size 8 and with the whole stream as one chunk
\* are all the sequence the inner loop yields on the whole stream, so they
\* are the same under every chunking.
C1_ChunkSizeInvariance ==
    pc = "done" =>
        ValidPayloads(events) = ValidPayloads(inner_loop(stream, 0, <<>>))

\* a finished run with one-byte reads over noise and frames that logged two
\* valid frames
C1_Witness ==
    /\ pc = "done"
    /\ chunk_size = 1
    /\ Kinds(layout) = <<"noise", "frame", "noise", "frame">>
    /\ layout[1].bytes # <<>>
    /\ layout[3].bytes # <<>>
    /\ Len(ValidPayloads(events)) = 2

\* C2 (as stated): for noise1 + validFrame(A) + noise2 + validFrame(B) with
\* any noise runs, exactly two Valid Frame messages are logged, A then B.
C2_ResyncAnyNoise ==
    (pc = "done" /\ Kinds(layout) = <<"noise", "frame", "noise", "frame">>)
        => ValidPayloads(events) = <<layout[2].payload, layout[4].payload>>

\* C2 (amended): for noise1 + validFrame(A) + noise2 + validFrame(B) where
\* neither noise run contains the marker 0xBE 0xEF, exactly two Valid Frame
\* messages are logged, the first with payload A, the second with payload B.
C2_ResyncMarkerFreeNoise ==
    (/\ pc = "done"
     /\ Kinds(layout) = <<"noise", "frame", "noise", "frame">>
     /\ NoMarker(layout[1].bytes)
     /\ NoMarker(layout[3].bytes))
        => ValidPayloads(events) = <<layout[2].payload, layout[4].payload>>

\* two different frames, each behind marker-free noise that ends with the
\* first marker byte, both logged
C2_Witness ==
    /\ pc = "done"
    /\ Kinds(layout) = <<"noise", "frame", "noise", "frame">>
    /\ NoMarker(layout[1].bytes)
    /\ NoMarker(layout[3].bytes)
    /\ layout[1].bytes # <<>>
    /\ layout[3].bytes # <<>>
    /\ layout[1].bytes[Len(layout[1].bytes)] = 190
    /\ layout[2].payload # layout[4].payload
    /\ ValidPayloads(events) = <<layout[2].payload, layout[4].payload>>

\* C3: on a stream without the marker nothing is ever logged, and the loop
\* never gets past the sync search to index the buffer, under every chunking.
C3_NoiseRobustness ==
    NoMarker(stream) => (events = <<>> /\ pc \in {"read", "sync", "done"})

\* a marker-free stream read byte by byte to its end, with 0xBE the last
\* byte of a chunk that is not the last
C3_Witness ==
    /\ pc = "done"
    /\ chunk_size = 1
    /\ NoMarker(stream)
    /\ Len(stream) >= 2
    /\ stream[1] = 190
    /\ events = <<>>

\* C4: for validFrame(A) followed by a proper prefix P of validFrame(B),
\* at most one message is ever logged, a Valid Frame with payload A, it is
\* logged by the end of the stream, and P is left in the buffer unreported.
C4_PartialTail ==
    Kinds(layout) = <<"frame", "prefix">> =>
        /\ Len(events) <= 1
        /\ \A i \in 1..Len(events) :
              events[i].kind = "valid" /\ events[i].payload = layout[1].payload
        /\ pc = "done" => (Len(events) = 1 /\ buffer = layout[2].bytes)

\* the stream ended with a frame logged and a truncated frame, header
\* included, left in the buffer
C4_Witness ==
    /\ pc = "done"
    /\ Kinds(layout) = <<"frame", "prefix">>
    /\ Len(layout[2].bytes) >= 5
    /\ Len(events) = 1
    /\ buffer = layout[2].bytes

\* the message logged by the step just taken, when the step logged one
Logged == events'[Len(events')]

\* the step just taken is the extraction of a candidate frame
Extracting == pc = "length" /\ pc' = "sync"

\* C5: a step logs a message exactly when it extracts a candidate, it then
\* logs exactly one, and that message is Valid Frame if the big-endian value
\* of the candidate's last two bytes equals the CRC of the bytes before them
\* and CRC mismatch otherwise.
C5_OneEventPerCandidate ==
    [][/\ Extracting <=> events' # events
       /\ Extracting =>
            LET frame == SubSeq(buffer, 1, Len(buffer) - Len(buffer'))
                received == Int16ub(frame[Len(frame) - 1], frame[Len(frame)])
                recomputed == crc16_ccitt(SubSeq(frame, 1, Len(frame) - 2))
            IN  /\ events' = Append(events, Logged)
                /\ Logged.raw = frame
                /\ Logged.kind = IF received = recomputed
                                   THEN "valid" ELSE "crc_mismatch"]_vars

\* both outcomes have been logged in one run
C5_Witness ==
    /\ Len(events) = 2
    /\ events[1].kind = "crc_mismatch"
    /\ events[1].received # events[1].computed
    /\ events[2].kind = "valid"
    /\ events[2].received = events[2].computed

\* C6: every logged candidate is the span of the stream at its start
\* offset, and each candidate starts at or after the end of the one logged
\* before it: spans are disjoint and logged in increasing stream order.
C6_InOrderDelivery ==
    \A i \in 1..Len(events) :
        /\ events[i].raw = SubSeq(stream, events[i].start + 1,
                                  events[i].start + Len(events[i].raw))
        /\ i > 1 => events[i - 1].start + Len(events[i - 1].raw)
                        <= events[i].start

\* two candidates logged with eight-byte reads, the second one starting
\* after a gap behind the first, which itself holds a marker in its payload
C6_Witness ==
    /\ chunk_size = 8
    /\ Len(events) = 2
    /\ events[1].payload = <<48879>>
    /\ events[1].start + Len(events[1].raw) < events[2].start

\* C7: a stream that is one encoded frame yields exactly one message, a
\* Valid Frame with the encoded payload.
C7_RoundTrip ==
    Kinds(layout) = <<"frame">> =>
        /\ Len(events) <= 1
        /\ \A i \in 1..Len(events) :
              events[i].kind = "valid" /\ events[i].payload = layout[1].payload
        /\ pc = "done" => Len(events) = 1

\* the frame of the empty payload, read to the end of the stream
C7_Witness ==
    /\ pc = "done"
    /\ Kinds(layout) = <<"frame">>
    /\ layout[1].payload = <<>>
    /\ Len(events) = 1
    /\ events[1].payload = <<>>

\* C8: a frame with one payload byte changed after encoding is logged as a
\* CRC mismatch, and no Valid Frame message is ever logged for bytes of it.
C8_DetectedCorruption ==
    (Len(layout) >= 1 /\ layout[1].kind = "corrupt") =>
        /\ Len(events) >= 1 =>
              /\ events[1].kind = "crc_mismatch"
              /\ events[1].raw = layout[1].bytes
        /\ \A i \in 1..Len(events) :
              events[i].kind = "valid" =>
                  events[i].start >= Len(layout[1].bytes)
        /\ pc = "done" => Len(events) >= 1

\* a corrupted frame standing alone was read and reported
C8_Witness ==
    /\ pc = "done"
    /\ Kinds(layout) = <<"corrupt">>
    /\ Len(events) = 1
    /\ events[1].kind = "crc_mismatch"
    /\ events[1].raw = layout[1].bytes
    /\ events[1].raw # make_frame(layout[1].payload)

\* C9: a valid frame that begins right after the last byte of a candidate
\* reported as CRC mismatch is logged as a Valid Frame.
C9_MismatchNotFatal ==
    (pc = "done" /\ Kinds(layout) = <<"corrupt", "frame">>) =>
        /\ Len(events) = 2
        /\ events[1].kind = "crc_mismatch"
        /\ events[2].kind = "valid"
        /\ events[2].payload = layout[2].payload
        /\ events[2].start = events[1].start + Len(events[1].raw)

\* a mismatch followed by a valid frame, read byte by byte
C9_Witness ==
    /\ pc = "done"
    /\ chunk_size = 1
    /\ Kinds(layout) = <<"corrupt", "frame">>
    /\ Len(events) = 2
    /\ events[1].kind = "crc_mismatch"
    /\ events[2].kind = "valid"

\* C10 (as stated): after a candidate that starts at stream offset k fails
\* validation, the next search starts at offset k + 1.
C10_ResumeOneByteLater ==
    [][(Extracting /\ Logged.kind # "valid") => Base' = Base + 1]_vars

\* C10 (amended): after a candidate that starts at stream offset k, with
\* length field L, fails validation, the whole candidate is consumed and
\* the next search starts at offset k + 6 + 2L, right after its last byte.
C10_ResumeAfterCandidate ==
    [][(Extracting /\ Logged.kind # "valid") =>
          LET L == Int16ub(buffer[3], buffer[4])
          IN  /\ Base' = Base + 6 + 2 * L
              /\ buffer' = SubSeq(buffer, 6 + 2 * L + 1, Len(buffer))]_vars

\* a false marker in the noise made a candidate that swallowed the marker
\* of the real frame behind it; the search resumed behind the candidate
C10_Witness ==
    /\ pc = "sync"
    /\ Kinds(layout) = <<"noise", "frame", "frame">>
    /\ Len(events) = 1
    /\ events[1].kind = "crc_mismatch"
    /\ events[1].start = 0
    /\ Len(events[1].raw) > Len(layout[1].bytes)
    /\ Base = Len(events[1].raw)

\* the step just taken is a sync search on the buffer
Searching == pc = "sync"

\* C11: a sync search on a buffer without the marker leaves the buffer as
\* it is, discards and logs nothing and returns to reading; a search on a
\* buffer with the marker, however the marker's two bytes arrived, finds it.
C11_NoSyncKeepsBuffer ==
    [][Searching =>
          IF NoMarker(buffer)
            THEN /\ buffer' = buffer
                 /\ removed' = removed
                 /\ events' = events
                 /\ pc' = "read"
          ELSE /\ pc' = "length"
               /\ SubSeq(buffer', 1, 2) = SYNC]_vars

\* one-byte reads: 0xBE was the last byte of the buffer after one read, kept
\* behind noise, 0xEF came with the next read and the marker was found
C11_Witness ==
    /\ chunk_size = 1
    /\ pc = "length"
    /\ buffer = SYNC
    /\ removed # <<>>
    /\ Base = Len(removed)
    /\ events = <<>>

\* the step just taken is the length and completeness check of a candidate
Checking == pc = "length"

\* the marker-aligned buffer b holds the whole candidate its length field
\* announces
Complete(b) ==
    /\ SubSeq(b, 1, 2) = SYNC
    /\ Len(b) >= 4
    /\ Len(b) >= 4 + 2 * Int16ub(b[3], b[4]) + 2

\* C12: a candidate is extracted, and a message logged, only from a buffer
\* that begins with the marker and holds at least 4 + 2*length + 2 bytes;
\* the check of a shorter buffer consumes nothing, logs nothing and returns
\* to reading.
C12_CompletenessCheck ==
    [][/\ (events' # events \/ Extracting) => Complete(buffer)
       /\ (Checking /\ ~Complete(buffer)) =>
             /\ SubSeq(buffer, 1, 2) = SYNC
             /\ buffer' = buffer
             /\ removed' = removed
             /\ events' = events
             /\ pc' = "read"]_vars

\* a candidate with its header and part of its payload went back to reading
\* untouched
C12_Witness ==
    /\ pc = "read"
    /\ Len(buffer) >= 5
    /\ SubSeq(buffer, 1, 2) = SYNC
    /\ ~Complete(buffer)
    /\ Base = Len(removed)
    /\ events = <<>>

\* C13: extraction takes exactly the first 6 + 2*length bytes of the buffer
\* as the candidate, two bytes for each counted item, and leaves the bytes
\* behind them in the buffer as they were.
C13_ExtractExactly ==
    [][Extracting =>
          LET n == 6 + 2 * Int16ub(buffer[3], buffer[4])
          IN  /\ Logged.raw = SubSeq(buffer, 1, n)
              /\ Len(Logged.raw) = n
              /\ removed' = removed \o SubSeq(buffer, 1, n)
              /\ buffer' = SubSeq(buffer, n + 1, Len(buffer))
              /\ Len(buffer') = Len(buffer) - n]_vars

\* a candidate with one payload item, eight bytes, was taken from a buffer
\* that held more behind it
C13_Witness ==
    /\ pc = "sync"
    /\ Len(events) = 1
    /\ Len(events[1].payload) = 1
    /\ Len(events[1].raw) = 8
    /\ buffer # <<>>
    /\ buffer = SubSeq(stream, events[1].start + 9, pos)

\* C14: a sync search that finds the marker at index idx, the first place
\* it occurs, removes exactly the idx bytes ahead of it; the buffer then
\* begins with 0xBE 0xEF and holds what it held from the marker on.
C14_DiscardToSync ==
    [][(Searching /\ ~NoMarker(buffer)) =>
          \E idx \in 0..(Len(buffer) - 2) :
              /\ buffer[idx + 1] = 190 /\ buffer[idx + 2] = 239
              /\ NoMarker(SubSeq(buffer, 1, idx + 1))
              /\ buffer' = SubSeq(buffer, idx + 1, Len(buffer))
              /\ removed' = removed \o SubSeq(buffer, 1, idx)
              /\ SubSeq(buffer', 1, 2) = SYNC
              /\ events' = events]_vars

\* noise that ended with the first marker byte was dropped ahead of a marker
C14_Witness ==
    /\ pc = "length"
    /\ removed # <<>>
    /\ removed[Len(removed)] = 190
    /\ events = <<>>
    /\ SubSeq(buffer, 1, 2) = SYNC
    /\ Len(buffer) >= 6

\* C15: whenever the loop is about to read, or has stopped reading, the
\* buffer holds no complete candidate: it holds no marker at all, or it
\* begins with the marker and is shorter than 4 bytes or than the
\* 6 + 2*length bytes its length field announces.
C15_NothingCompleteAtRead ==
    pc \in {"read", "done"} =>
        \/ NoMarker(buffer)
        \/ /\ SubSeq(buffer, 1, 2) = SYNC
           /\ ~Complete(buffer)

\* two frames that came back to back in one chunk were both logged before
\* the next read
C15_Witness ==
    /\ pc = "read"
    /\ chunk_size = Len(stream)
    /\ pos = Len(stream)
    /\ Len(events) = 2
    /\ events[2].start = events[1].start + Len(events[1].raw)
    /\ buffer = <<>>

\* C17: find_sync of the buffer is -1 when the buffer holds no marker, the
\* empty buffer and the buffer that is the single byte 0xBE included, and
\* otherwise the smallest index the marker occurs at.
C17_FindSyncFirst ==
    LET idx == find_sync(buffer)
    IN  /\ NoMarker(buffer) <=> idx = -1
        /\ Len(buffer) <= 1 => idx = -1
        /\ idx # -1 =>
              /\ idx \in 0..(Len(buffer) - 2)
              /\ buffer[idx + 1] = 190
              /\ buffer[idx + 2] = 239
              /\ \A j \in 0..(idx - 1) :
                    ~(buffer[j + 1] = 190 /\ buffer[j + 2] = 239)

\* a search on a buffer that holds the marker twice, the first behind a
\* byte of noise
C17_Witness ==
    /\ pc = "sync"
    /\ find_sync(buffer) = 1
    /\ \E j \in 3..(Len(buffer) - 1) : buffer[j] = 190 /\ buffer[j + 1] = 239

\* C18: every candidate handed to the parser begins with 0xBE 0xEF and is
\* exactly the 6 + 2*L bytes long that its own length field L gives, so no
\* parse error is ever logged: each message is Valid Frame or CRC mismatch.
C18_NoParseError ==
    \A i \in 1..Len(events) :
        /\ events[i].kind \in {"valid", "crc_mismatch"}
        /\ Len(events[i].raw) >= 6
        /\ SubSeq(events[i].raw, 1, 2) = SYNC
        /\ Len(events[i].raw)
             = 6 + 2 * Int16ub(events[i].raw[3], events[i].raw[4])
        /\ Frame_parse(events[i].raw).ok

\* a candidate made by a false marker in the noise, parsed all the same
C18_Witness ==
    /\ Kinds(layout) = <<"noise", "frame", "frame">>
    /\ Len(events) >= 1
    /\ events[1].start = 0
    /\ events[1].kind = "crc_mismatch"
    /\ Frame_parse(events[1].raw).ok

\* C19: the bytes removed from the buffer so far, garbage and candidates in
\* the order they were removed, followed by the buffer, are exactly the
\* bytes read from the stream so far.
C19_ByteConservation ==
    removed \o buffer = SubSeq(stream, 1, pos)

\* garbage, a candidate and more garbage were removed, and the start of the
\* next frame waits in the buffer
C19_Witness ==
    /\ pc = "read"
    /\ Len(events) = 1
    /\ events[1].start > 0
    /\ Len(removed) > events[1].start + Len(events[1].raw)
    /\ Len(buffer) >= 3
    /\ SubSeq(buffer, 1, 2) = SYNC

(***************************************************************************)
(* read_serial_stream is one sequential call: until it returns, control    *)
(* moves on to the next statement.  Every step of Next changes pc, and at  *)
(* each position other than "done" the guards of the actions cover all     *)
(* cases, so the fairness condition is put on the move of pc.              *)
(***************************************************************************)
Advance ==
    /\ pc # "done"
    /\ pc' \in {"read", "sync", "length", "done"} \ {pc}

LiveSpec == Spec /\ WF_pc(Advance)

\* C16: on every finite stream and for every chunk size >= 1 the call
\* terminates; an inner iteration that does not break takes at least 6
\* bytes off the buffer; the first empty read ends the call without a
\* message, and after it nothing runs, whatever is left in the buffer.
C16_Termination ==
    /\ <>[](pc = "done")
    /\ [][Extracting => Len(buffer') <= Len(buffer) - 6]_vars
    /\ [][(pc = "read" /\ stream_read = <<>>) =>
              /\ pc' = "done"
              /\ events' = events
              /\ buffer' = buffer]_vars
    /\ [][pc # "done"]_vars

\* the call has ended with the start of a frame left in the buffer
C16_Witness ==
    /\ pc = "done"
    /\ Len(events) = 1
    /\ events[1].kind = "valid"
    /\ Len(buffer) >= 4
    /\ SubSeq(buffer, 1, 2) = SYNC
    /\ chunk_size \in 1..Len(stream)

(***************************************************************************)
(* crc16_ccitt on its own: the function is called, and called once more,   *)
(* on every prefix of a byte string, the empty prefix first.  stream is    *)
(* the byte string, pos the length of the prefix, and events the record of *)
(* the calls made.                                                         *)
(***************************************************************************)
CrcBytes == {0, 1, 128, 255}

\* "123456789", the check string of the CRC catalogues
CheckString == <<49, 50, 51, 52, 53, 54, 55, 56, 57>>

CrcInputs == SeqsUpTo(CrcBytes, MaxData) \cup {CheckString}

CrcInit ==
    /\ stream \in CrcInputs
    /\ layout = <<>>
    /\ chunk_size = 1
    /\ pos = 0
    /\ buffer = <<>>
    /\ removed = <<>>
    /\ events = <<>>
    /\ pc = "crc"

\* crc16_ccitt(data) with data the first pos bytes
CrcCall ==
    /\ pc = "crc"
    /\ LET data == SubSeq(stream, 1, pos)
       IN  events' = Append(events, [data |-> data, crc |-> crc16_ccitt(data)])
    /\ pc' = "again"
    /\ UNCHANGED <<layout, stream, pos, chunk_size, buffer, removed>>

\* a second call of crc16_ccitt on the same bytes
CrcRepeat ==
    /\ pc = "again"
    /\ LET data == events[Len(events)].data
       IN  events' = Append(events, [data |-> data, crc |-> crc16_ccitt(data)])
    /\ pc' = "longer"
    /\ UNCHANGED <<layout, stream, pos, chunk_size, buffer, removed>>

\* the next call takes one byte more
CrcExtend ==
    /\ pc = "longer"
    /\ pos < Len(stream)
    /\ pos' = pos + 1
    /\ pc' = "crc"
    /\ UNCHANGED <<layout, stream, chunk_size, buffer, events, removed>>

CrcNext == CrcCall \/ CrcRepeat \/ CrcExtend

CrcSpec == CrcInit /\ [][CrcNext]_vars

\* C20: every value crc16_ccitt returns lies in 0..65535; two calls on the
\* same bytes return the same value; the empty input gives 0xFFFF, and the
\* check string "123456789" gives 0x29B1, the check value of
\* CRC-16/CCITT-FALSE.
C20_CrcCcittFalse ==
    \A i \in 1..Len(events) :
        /\ events[i].crc \in 0..65535
        /\ events[i].data = <<>> => events[i].crc = 65535
        /\ events[i].data = CheckString => events[i].crc = 10673
        /\ \A j \in 1..Len(events) :
              events[j].data = events[i].data => events[j].crc = events[i].crc

\* the function was called twice on the empty input and twice on every
\* prefix of the check string
C20_Witness ==
    /\ stream = CheckString
    /\ pc = "longer"
    /\ Len(events) = 20
    /\ events[1].data = <<>>
    /\ events[2].crc = 65535
    /\ events[20].data = CheckString
    /\ events[20].crc = 10673

====
